---- MODULE Spec2Model ----
(***************************************************************************)
(* Model of the client-side inventory engine of the After School Classes   *)
(* frontend (src/src/App.vue): the lesson catalog, the search projection,  *)
(* the cart and the order pipeline, together with the backend they talk    *)
(* to.  Lesson records are JavaScript objects, so the model keeps a heap   *)
(* of records and the three collections hold references into it: two       *)
(* collections may hold the same object.                                   *)
(***************************************************************************)
EXTENDS Integers, Sequences, FiniteSets, TLC

\* ---------------------------------------------------------------- bounds
Ids == {1, 2}              \* lesson ids known to the backend
MaxCap == 2                \* largest capacity the backend starts with
MaxQty == 2                \* largest quantity a CartLine may reach in the model
SpacesBound == MaxCap + 1  \* |spaces| of a record never exceeds this in the model
MaxSearches == 2          \* search requests dispatched in one session
MaxOrders == 1             \* order submissions started in one session
MaxResubmits == 1          \* further submissions in a session with resubmission
MaxTimers == 3             \* timer handles setTimeout can hand out in the model

Queries == {"ma", "math"}  \* non-empty trimmed queries the user types

\* GET /search?q=: the ids the backend matches for a query
Matches(q) == IF q = "ma" THEN {1} ELSE {}

NoObj == 0                 \* result of Array.prototype.find when nothing matches

\* the search box of LessonList: its text is a sequence of characters
Texts == {<<>>, <<" ">>, <<"m", "a">>, <<" ", "m", "a", " ">>, <<"m", "a", "t", "h">>}

\* the characters JavaScript counts as white space (String.prototype.trim and
\* the class \s of a regular expression): the space and, standing for all
\* the others, the tab
Whitespace == {" ", "\t"}

\* String.prototype.trim: whitespace is stripped from both ends
RECURSIVE Trim(_)
Trim(t) ==
  IF t = <<>> THEN <<>>
  ELSE IF Head(t) \in Whitespace THEN Trim(Tail(t))
  ELSE IF t[Len(t)] \in Whitespace THEN Trim(SubSeq(t, 1, Len(t) - 1))
  ELSE t

\* the query string a text spells
Str(t) ==
  IF t = <<>> THEN ""
  ELSE IF t = <<"m", "a">> THEN "ma"
  ELSE IF t = <<"m", "a", "t", "h">> THEN "math"
  ELSE "?"

NoTimer == 0               \* let searchTimeout = null
\* no 'submit-order' event emitted
NoEvent == [name |-> <<>>, phone |-> <<>>]
TimerIds == 1..MaxTimers   \* handles returned by setTimeout

\* --------------------------------------------------- sorting (LessonList)
MaxList == 3               \* longest list handed to sortedLessons in the model

\* strings are sequences of UTF-16 code units: 65 is "A", 90 "Z", 97 "a"
UpperA == 65
UpperZ == 90
CaseOffset == 32           \* "a" - "A"

\* the lesson cards the sort is exercised on: subjects and locations differ
\* in case and in length, prices and spaces repeat
SortLessons ==
  { [id |-> 1, subject |-> <<90>>,     location |-> <<98>>,     price |-> 2, spaces |-> 0],
    [id |-> 2, subject |-> <<97>>,     location |-> <<66>>,     price |-> 1, spaces |-> 2],
    [id |-> 3, subject |-> <<65, 98>>, location |-> <<97>>,     price |-> 2, spaces |-> 1],
    [id |-> 4, subject |-> <<65>>,     location |-> <<65, 97>>, price |-> 3, spaces |-> 2] }

\* the lists of distinct lesson cards of length MaxList at most
SortLists ==
  UNION { { l \in [1..n -> SortLessons] : \A i, j \in 1..n : l[i] = l[j] => i = j }
          : n \in 0..MaxList }

\* the options of the two select boxes
SortAttrs == {"subject", "location", "price", "spaces"}
SortOrders == {"asc", "desc"}

\* the attributes whose values are strings (typeof aValue === 'string')
StringAttrs == {"subject", "location"}

\* --------------------------------------------------- CheckoutForm inputs
MaxName == 3               \* longest text typed into the name box in the model
MinNameLen == 2            \* name.length < 2
MinPhoneLen == 10          \* phone.length < 10
MaxPhoneLen == 15          \* phone.length > 15

\* the characters typed: a letter, a space, a tab, a digit
FormChars == {"a", " ", "\t", "1"}
Letters == {"a"}           \* [A-Za-z]
DigitChars == {"1"}        \* [0-9]

\* the texts of the name box
NameTexts == UNION { [1..n -> FormChars] : n \in 0..MaxName }

\* n digits
Digits(n) == [i \in 1..n |-> "1"]

\* the texts of the phone box: around both length limits, padded, and with a
\* letter
PhoneTexts ==
  { <<>>, Digits(MinPhoneLen - 1), Digits(MinPhoneLen), Digits(MaxPhoneLen),
    Digits(MaxPhoneLen + 1), <<" ">> \o Digits(MinPhoneLen) \o <<" ">>,
    Digits(MinPhoneLen - 1) \o <<"a">> }

\* references: each of lessons, searchResults and cartItems holds at most one
\* object per lesson id
Refs == 1..(3 * Cardinality(Ids))

\* the PUT /lessons/:id calls that can exist
PutCalls == [id : Ids, spaces : (0 - SpacesBound)..SpacesBound, awaited : BOOLEAN]

VARIABLES
  srv,                \* backend: lesson id -> spaces
  heap,               \* lesson objects: reference -> [id, spaces]
  lessons,            \* ref lessons: sequence of references
  searchResults,      \* ref searchResults: sequence of references
  isSearchActive,     \* ref isSearchActive
  cartItems,          \* ref cartItems: sequence of [lesson: reference, quantity]
  showCart,           \* ref showCart
  isLoading,          \* ref isLoading
  isSearching,        \* ref isSearching
  isSubmittingOrder,  \* ref isSubmittingOrder
  error,              \* ref error (TRUE when an error message is set)
  showSuccessMessage, \* ref showSuccessMessage
  searchQuery,        \* LessonList: ref searchQuery, the text of the search box
  searchTimeout,      \* LessonList: let searchTimeout, the handle last armed
  timers,             \* setTimeout handles of the search box still pending
  emitted,            \* history: the events the last handler of the search box
                      \* emitted to App.vue
  fetchReq,           \* TRUE while a GET /lessons call is in flight
  searchReqs,         \* GET /search calls in flight, in dispatch order
  postReq,            \* the POST /order body in flight, or NoReq
  putReqs,            \* PUT /lessons/:id calls in flight
  fetchCap,           \* history: spaces per id in the last completed fetch
  submitted,          \* history: number of order submissions started so far
  dispatched,         \* history: number of search requests dispatched so far
  latest,             \* history: the most recently dispatched search request is
                      \* "pending", "answered", "failed", or "none" since the
                      \* last clear
  notice,             \* history: the last handler showed the "fully booked" notice
  orderAlert,         \* history: the call whose failure the last handler reported
                      \* with the "Failed to submit order" alert: "order",
                      \* "update", or "none" when it showed no such alert
  firstAdd,           \* history: <<id, spaces>> for every cart line, spaces being
                      \* the catalog's value just before the add that created it
  sentOrder,          \* history: the POST /order body of the last submission
                      \* that was logged, or NoReq
  sortProp,           \* LessonList: props.lessons as sortedLessons reads it
  sortBy,             \* ref sortBy / localSortBy
  sortOrder,          \* ref sortOrder / localSortOrder
  sortOut,            \* LessonList: the list sortedLessons last returned
  customerName,       \* CheckoutForm: ref customerName
  customerPhone,      \* CheckoutForm: ref customerPhone
  nameError,          \* CheckoutForm: ref nameError
  phoneError,         \* CheckoutForm: ref phoneError
  submitEvent         \* CheckoutForm: payload of the last 'submit-order' event

progVars == <<heap, lessons, searchResults, isSearchActive, cartItems, showCart,
              isLoading, isSearching, isSubmittingOrder, error, showSuccessMessage>>
netVars == <<srv, fetchReq, searchReqs, postReq, putReqs>>
debVars == <<searchQuery, searchTimeout, timers, emitted>>
vars == <<srv, heap, lessons, searchResults, isSearchActive, cartItems, showCart,
          isLoading, isSearching, isSubmittingOrder, error, fetchReq, searchReqs,
          postReq, putReqs, fetchCap, submitted, dispatched, latest, notice,
          showSuccessMessage, searchQuery, searchTimeout, timers, emitted,
          orderAlert, firstAdd, sentOrder, sortProp, sortBy, sortOrder, sortOut, customerName,
          customerPhone, nameError, phoneError, submitEvent>>
sortVars == <<sortProp, sortBy, sortOrder, sortOut>>
formVars == <<customerName, customerPhone, nameError, phoneError, submitEvent>>
auxVars == <<sortVars, formVars>>
\* everything App.vue and the search box own
appVars == <<progVars, netVars, debVars, fetchCap, submitted, dispatched, latest,
             notice, orderAlert, firstAdd, sentOrder>>

\* ------------------------------------------------------- object references
RECURSIVE Dedup(_)
Dedup(s) ==
  IF s = <<>> THEN <<>>
  ELSE LET r == Dedup(SubSeq(s, 1, Len(s) - 1))
           x == s[Len(s)]
       IN IF \E i \in 1..Len(r) : r[i] = x THEN r ELSE Append(r, x)

IndexOf(s, x) == CHOOSE i \in 1..Len(s) : s[i] = x

\* the objects still referenced by some collection, in a fixed order
Roots(L, S, C) == Dedup(L \o S \o [i \in 1..Len(C) |-> C[i].lesson])

\* Array.prototype.find(l => l._id === id) over a list of references
Find(h, list, id) ==
  IF \E i \in 1..Len(list) : h[list[i]].id = id
  THEN list[CHOOSE i \in 1..Len(list) :
              /\ h[list[i]].id = id
              /\ \A j \in 1..(i - 1) : h[list[j]].id # id]
  ELSE NoObj

\* a record already in the catalog keeps the spaces the catalog shows
NewObjectsMut(h, ids) ==
  LET order == [i \in 1..Cardinality(ids) |->
                  CHOOSE x \in ids : Cardinality({y \in ids : y < x}) = i - 1]
  IN [objs |-> [i \in 1..Len(order) |->
                  [id |-> order[i],
                   spaces |-> IF Find(h, lessons, order[i]) # NoObj
                              THEN h[Find(h, lessons, order[i])].spaces
                              ELSE srv[order[i]]]],
      refs |-> [i \in 1..Len(order) |-> Len(h) + i]]

\* data.map(enhanceLesson): one new object per record of a response; the
\* backend reads its lessons when it answers
NewObjects(h, ids) ==
  LET order == [i \in 1..Cardinality(ids) |->
                  CHOOSE x \in ids : Cardinality({y \in ids : y < x}) = i - 1]
  IN [objs |-> [i \in 1..Len(order) |-> [id |-> order[i], spaces |-> srv[order[i]]]],
      refs |-> [i \in 1..Len(order) |-> Len(h) + i]]

\* The new values of the four object-holding variables.  References are
\* renumbered by first use and unreferenced objects are dropped (garbage
\* collection), which no handler can observe.
Store(h, L, S, C) ==
  LET roots == Roots(L, S, C)
      ren(a) == IndexOf(roots, a)
  IN /\ heap' = [k \in 1..Len(roots) |-> h[roots[k]]]
     /\ lessons' = [i \in 1..Len(L) |-> ren(L[i])]
     /\ searchResults' = [i \in 1..Len(S) |-> ren(S[i])]
     /\ cartItems' = [i \in 1..Len(C) |-> [lesson |-> ren(C[i].lesson),
                                           quantity |-> C[i].quantity]]

InBounds(h, C) ==
  /\ \A a \in 1..Len(h) : h[a].spaces \in (0 - SpacesBound)..SpacesBound
  /\ \A i \in 1..Len(C) : C[i].quantity <= MaxQty

\* ------------------------------------------------------------ computed
displayedLessons == IF isSearchActive THEN searchResults ELSE lessons

\* v-if / v-else-if / v-else chain of the template
ContentShown == ~isLoading /\ ~error

\* the lesson list left on screen while a catalog already fetched is loading
\* again
LessonsViewShownMut == ~error /\ ~showCart /\ Len(lessons) > 0

\* the v-else branch with v-if="!showCart": LessonList is on screen
LessonsViewShown == ContentShown /\ ~showCart

\* the v-else branch with the cart view
CartViewShown == ContentShown /\ showCart

\* no POST /order in flight
NoReq == [lessonIds |-> <<>>, spaces |-> {}]

\* ------------------------------------------------------------------ Init
\* App.vue and the search box of LessonList when the page has been mounted
InitApp ==
  /\ srv \in [Ids -> 0..MaxCap]
  /\ heap = <<>>
  /\ lessons = <<>>
  /\ searchResults = <<>>
  /\ isSearchActive = FALSE
  /\ cartItems = <<>>
  /\ showCart = FALSE
  /\ isLoading = TRUE          \* onMounted has called fetchLessons
  /\ isSearching = FALSE
  /\ isSubmittingOrder = FALSE
  /\ error = FALSE
  /\ fetchReq = TRUE
  /\ searchReqs = <<>>
  /\ postReq = NoReq
  /\ putReqs = {}
  /\ fetchCap = [i \in Ids |-> 0]
  /\ submitted = 0
  /\ dispatched = 0
  /\ latest = "none"
  /\ notice = FALSE
  /\ showSuccessMessage = FALSE
  /\ searchQuery = <<>>
  /\ searchTimeout = NoTimer
  /\ timers = {}
  /\ emitted = <<>>
  /\ orderAlert = "none"
  /\ firstAdd = {}
  /\ sentOrder = NoReq

\* the sort controls of LessonList when mounted
InitSort ==
  /\ sortProp = <<>>
  /\ sortBy = "subject"
  /\ sortOrder = "asc"
  /\ sortOut = <<>>

\* CheckoutForm when mounted
InitForm ==
  /\ customerName = <<>>
  /\ customerPhone = <<>>
  /\ nameError = ""
  /\ phoneError = ""
  /\ submitEvent = NoEvent

Init == InitApp /\ InitSort /\ InitForm

\* ------------------------------------------------------------ fetchLessons
\* the error of the previous attempt left in place
FetchLessonsStartMut ==
  /\ isLoading' = TRUE
  /\ error' = error
  /\ fetchReq' = TRUE

\* fetchLessons up to the GET: isLoading = true, error = null
FetchLessonsStart ==
  /\ isLoading' = TRUE
  /\ error' = FALSE
  /\ fetchReq' = TRUE

\* GET /lessons answers 200: lessons.value = data.map(enhanceLesson)
FetchOk ==
  /\ fetchReq
  /\ LET n == NewObjects(heap, Ids)
     IN Store(heap \o n.objs, n.refs, searchResults, cartItems)
  /\ fetchCap' = srv
  /\ isLoading' = FALSE
  /\ fetchReq' = FALSE
  /\ notice' = FALSE
  /\ orderAlert' = "none"
  /\ UNCHANGED <<srv, isSearchActive, showCart, isSearching, isSubmittingOrder,
                 error, searchReqs, postReq, putReqs, submitted, dispatched, latest,
                 showSuccessMessage, firstAdd, debVars>>
  /\ UNCHANGED <<sentOrder, auxVars>>

\* GET /lessons fails (status or transport)
FetchFail ==
  /\ fetchReq
  /\ error' = TRUE
  /\ isLoading' = FALSE
  /\ fetchReq' = FALSE
  /\ notice' = FALSE
  /\ orderAlert' = "none"
  /\ UNCHANGED <<srv, heap, lessons, searchResults, isSearchActive, cartItems,
                 showCart, isSearching, isSubmittingOrder, searchReqs, postReq,
                 putReqs, fetchCap, submitted, dispatched, latest,
                 showSuccessMessage, firstAdd, debVars>>
  /\ UNCHANGED <<sentOrder, auxVars>>

\* the "Try again" button of the error panel
Retry ==
  /\ ~isLoading /\ error
  /\ FetchLessonsStart
  /\ notice' = FALSE
  /\ orderAlert' = "none"
  /\ UNCHANGED <<srv, heap, lessons, searchResults, isSearchActive, cartItems,
                 showCart, isSearching, isSubmittingOrder, searchReqs, postReq,
                 putReqs, fetchCap, submitted, dispatched, latest,
                 showSuccessMessage, firstAdd, debVars>>
  /\ UNCHANGED <<sentOrder, auxVars>>

\* -------------------------------------------------------- search (App.vue)
\* clearSearch also putting the fetched spaces back on every lesson
ClearSearchBodyMut ==
  /\ Store([a \in 1..Len(heap) |-> [heap[a] EXCEPT !.spaces = fetchCap[heap[a].id]]],
           lessons, <<>>, cartItems)
  /\ isSearchActive' = FALSE

\* clearSearch
ClearSearchBody ==
  /\ Store(heap, lessons, <<>>, cartItems)
  /\ isSearchActive' = FALSE

\* searchLessonsAPI(query) up to its first await
SearchDispatch(q) ==
  /\ isSearching' = TRUE
  /\ searchReqs' = Append(searchReqs, q)

\* the test for an empty query left out
EmptyQueryMut(q) == FALSE

\* if (query === '')
EmptyQuery(q) == q = ""

\* handleSearch(query), run for a 'search' event of the mounted LessonList
SearchEvent(q) ==
  /\ LessonsViewShown
  /\ IF EmptyQuery(q)
     THEN /\ ClearSearchBody
          /\ latest' = "none"
          /\ UNCHANGED <<isSearching, searchReqs, dispatched>>
     ELSE /\ dispatched < MaxSearches
          /\ dispatched' = dispatched + 1
          /\ SearchDispatch(q)
          /\ latest' = "pending"
          /\ UNCHANGED <<heap, lessons, searchResults, cartItems, isSearchActive>>
  /\ notice' = FALSE
  /\ orderAlert' = "none"
  /\ UNCHANGED <<srv, showCart, isLoading, isSubmittingOrder, error, fetchReq,
                 postReq, putReqs, fetchCap, submitted, showSuccessMessage, firstAdd>>

\* a 'search' event carrying q; the search box can emit any trimmed text
HandleSearch(q) ==
  /\ SearchEvent(q)
  /\ UNCHANGED debVars
  /\ UNCHANGED <<sentOrder, auxVars>>

\* clearSearch, run for a 'clear-search' event of the mounted LessonList
ClearSearchEvent ==
  /\ LessonsViewShown
  /\ ClearSearchBody
  /\ latest' = "none"
  /\ notice' = FALSE
  /\ orderAlert' = "none"
  /\ UNCHANGED <<srv, showCart, isLoading, isSearching, isSubmittingOrder, error,
                 fetchReq, searchReqs, postReq, putReqs, fetchCap, submitted,
                 dispatched, showSuccessMessage, firstAdd>>

\* a 'clear-search' event
ClearSearch ==
  /\ ClearSearchEvent
  /\ UNCHANGED debVars
  /\ UNCHANGED <<sentOrder, auxVars>>

\* ------------------------------------------- search box (LessonList.vue)
\* the handle setTimeout returns: one no pending timer has
NewTimer(T) == CHOOSE h \in TimerIds \ T : \A g \in TimerIds \ T : h <= g

\* the pending timer left armed
ClearTimeoutMut(T, h) == T

\* if (searchTimeout) clearTimeout(searchTimeout)
ClearTimeout(T, h) == T \ {h}

\* an input event: v-model stores the new text, then handleSearch cancels the
\* pending timer and arms a new one
Keystroke(t) ==
  /\ LessonsViewShown
  /\ t # searchQuery
  /\ TimerIds \ timers # {}
  /\ searchQuery' = t
  /\ searchTimeout' = NewTimer(timers)
  /\ timers' = ClearTimeout(timers, searchTimeout) \cup {NewTimer(timers)}
  /\ emitted' = <<>>
  /\ notice' = FALSE
  /\ orderAlert' = "none"
  /\ UNCHANGED <<srv, heap, lessons, searchResults, isSearchActive, cartItems,
                 showCart, isLoading, isSearching, isSubmittingOrder, error,
                 fetchReq, searchReqs, postReq, putReqs, fetchCap, submitted,
                 dispatched, latest, showSuccessMessage, firstAdd>>
  /\ UNCHANGED <<sentOrder, auxVars>>

\* the timer callback: emit('search', searchQuery.value.trim())
TimerFire(h) ==
  /\ h \in timers
  /\ timers' = timers \ {h}
  /\ emitted' = <<"search">>
  /\ UNCHANGED <<searchQuery, searchTimeout>>
  /\ SearchEvent(Str(Trim(searchQuery)))
  /\ UNCHANGED <<sentOrder, auxVars>>

\* the event emitted twice
ClearEventsMut == <<"clear-search", "clear-search">>

\* emit('clear-search')
ClearEvents == <<"clear-search">>

\* clearSearch of LessonList (the clear button, or Esc in the search box)
ClearClick ==
  /\ searchQuery' = <<>>
  /\ timers' = ClearTimeout(timers, searchTimeout)
  /\ emitted' = ClearEvents
  /\ UNCHANGED searchTimeout
  /\ ClearSearchEvent
  /\ UNCHANGED <<sentOrder, auxVars>>

\* LessonList leaves the page: its text and its timer variable go with it,
\* and a callback still pending emits on an unmounted component, which Vue
\* drops, so its timer is dropped here
UnmountList ==
  /\ searchQuery' = <<>>
  /\ searchTimeout' = NoTimer
  /\ timers' = {}
  /\ emitted' = <<>>

RemoveAt(s, i) == SubSeq(s, 1, i - 1) \o SubSeq(s, i + 1, Len(s))

\* the request answered is the most recently dispatched one
IsLatest(i) == i = Len(searchReqs) /\ latest = "pending"

\* GET /search answers 200: searchResults.value = data.map(enhanceLesson)
SearchOk(i) ==
  /\ i \in 1..Len(searchReqs)
  /\ LET n == NewObjects(heap, Matches(searchReqs[i]))
     IN Store(heap \o n.objs, lessons, n.refs, cartItems)
  /\ isSearchActive' = TRUE
  /\ isSearching' = FALSE
  /\ searchReqs' = RemoveAt(searchReqs, i)
  /\ latest' = IF IsLatest(i) THEN "answered" ELSE latest
  /\ notice' = FALSE
  /\ orderAlert' = "none"
  /\ UNCHANGED <<srv, showCart, isLoading, isSubmittingOrder, error, fetchReq,
                 postReq, putReqs, fetchCap, submitted, dispatched,
                 showSuccessMessage, firstAdd, debVars>>
  /\ UNCHANGED <<sentOrder, auxVars>>

\* the catch block keeping the results it had
FallbackResultsMut(L, S) == S

\* searchResults.value = lessons.value
FallbackResults(L, S) == L

\* GET /search fails: the catch block assigns the catalog array itself
SearchFail(i) ==
  /\ i \in 1..Len(searchReqs)
  /\ Store(heap, lessons, FallbackResults(lessons, searchResults), cartItems)
  /\ isSearching' = FALSE
  /\ searchReqs' = RemoveAt(searchReqs, i)
  /\ latest' = IF IsLatest(i) THEN "failed" ELSE latest
  /\ notice' = FALSE
  /\ orderAlert' = "none"
  /\ UNCHANGED <<srv, isSearchActive, showCart, isLoading, isSubmittingOrder,
                 error, fetchReq, postReq, putReqs, fetchCap, submitted, dispatched,
                 showSuccessMessage, firstAdd, debVars>>
  /\ UNCHANGED <<sentOrder, auxVars>>

\* ---------------------------------------------------------- cart (App.vue)
\* the guard with an off-by-one comparison
FullyBookedMut(spaces) == spaces < 0

\* if (lesson.spaces <= 0)
FullyBooked(spaces) == spaces <= 0

\* the comparison done on object identity instead of _id
SameLessonMut(h, a, b) == a = b

\* item.lesson._id === lesson._id
SameLesson(h, a, b) == h[a].id = h[b].id

\* cartItems.value.find(item => item.lesson._id === lesson._id), 0 when absent
ExistingItem(h, C, o) ==
  IF \E i \in 1..Len(C) : SameLesson(h, C[i].lesson, o)
  THEN CHOOSE i \in 1..Len(C) :
         /\ SameLesson(h, C[i].lesson, o)
         /\ \A j \in 1..(i - 1) : ~SameLesson(h, C[j].lesson, o)
  ELSE 0

\* the result -1 of findIndex used as an index: splice(-1, 1) takes the last line
CartIndexMut(h, C, id) ==
  IF \E i \in 1..Len(C) : h[C[i].lesson].id = id
  THEN CHOOSE i \in 1..Len(C) :
         /\ h[C[i].lesson].id = id
         /\ \A j \in 1..(i - 1) : h[C[j].lesson].id # id
  ELSE Len(C)

\* cartItems.value.findIndex(item => item.lesson._id === lessonId), 0 when absent
CartIndex(h, C, id) ==
  IF \E i \in 1..Len(C) : h[C[i].lesson].id = id
  THEN CHOOSE i \in 1..Len(C) :
         /\ h[C[i].lesson].id = id
         /\ \A j \in 1..(i - 1) : h[C[j].lesson].id # id
  ELSE 0

\* the increment left out
IncQuantityMut(q) == q

\* existingItem.quantity++
IncQuantity(q) == q + 1

\* lessonInList.spaces-- / lessonInSearch.spaces--
AddSpaces(h, a, d) == IF a = NoObj THEN h ELSE [h EXCEPT ![a].spaces = @ + d]

\* the cart after an accepted add of object o
CartAfterAdd(h, C, o) ==
  LET i == ExistingItem(h, C, o)
  IN IF i # 0 THEN [C EXCEPT ![i].quantity = IncQuantity(@)]
     ELSE Append(C, [lesson |-> o, quantity |-> 1])

\* the heap after the two mirror writes of delta d for lesson id
MirrorWrite(h, id, d) ==
  LET h1 == AddSpaces(h, Find(h, lessons, id), d)
  IN IF isSearchActive THEN AddSpaces(h1, Find(h1, searchResults, id), d) ELSE h1

\* addToCart(lesson): the 'add-to-cart' event, lesson being a displayed record.
\* LessonCard disables its button only when spaces === 0, so a record with
\* negative spaces can be clicked; the handler has its own guard.
AddToCart(o) ==
  /\ LessonsViewShown
  /\ o \in 1..Len(heap)
  /\ \E i \in 1..Len(displayedLessons) : displayedLessons[i] = o
  /\ IF FullyBooked(heap[o].spaces)
     THEN /\ notice' = TRUE
          /\ UNCHANGED <<heap, lessons, searchResults, cartItems, firstAdd>>
     ELSE LET C == CartAfterAdd(heap, cartItems, o)
              h == MirrorWrite(heap, heap[o].id, 0 - 1)
          IN /\ InBounds(h, C)
             /\ Store(h, lessons, searchResults, C)
             /\ notice' = FALSE
             /\ firstAdd' = IF ExistingItem(heap, cartItems, o) # 0 THEN firstAdd
                             ELSE firstAdd \cup
                                    {<<heap[o].id,
                                       heap[Find(heap, lessons, heap[o].id)].spaces>>}
  /\ orderAlert' = "none"
  /\ UNCHANGED <<srv, isSearchActive, showCart, isLoading, isSearching,
                 isSubmittingOrder, error, fetchReq, searchReqs, postReq, putReqs,
                 fetchCap, submitted, dispatched, latest, showSuccessMessage,
                 debVars>>
  /\ UNCHANGED <<sentOrder, auxVars>>

\* removeFromCart(lessonId): the 'remove-from-cart' event
RemoveFromCart(id) ==
  /\ CartViewShown
  /\ LET i == CartIndex(heap, cartItems, id)
     IN IF i = 0
        THEN /\ notice' = FALSE
             /\ UNCHANGED <<heap, lessons, searchResults, cartItems, firstAdd>>
        ELSE LET h == MirrorWrite(heap, id, cartItems[i].quantity)
             IN /\ InBounds(h, cartItems)
                /\ Store(h, lessons, searchResults, RemoveAt(cartItems, i))
                /\ notice' = FALSE
                /\ firstAdd' = {p \in firstAdd : p[1] # id}
  /\ orderAlert' = "none"
  /\ UNCHANGED <<srv, isSearchActive, showCart, isLoading, isSearching,
                 isSubmittingOrder, error, fetchReq, searchReqs, postReq, putReqs,
                 fetchCap, submitted, dispatched, latest, showSuccessMessage,
                 debVars>>
  /\ UNCHANGED <<sentOrder, auxVars>>

\* toggleCart: the header button is disabled on the lessons view with an empty cart
ToggleCart ==
  /\ ~(~showCart /\ Len(cartItems) = 0)
  /\ showCart' = ~showCart
  /\ IF showCart THEN UNCHANGED debVars ELSE UnmountList
  /\ notice' = FALSE
  /\ orderAlert' = "none"
  /\ UNCHANGED <<srv, heap, lessons, searchResults, isSearchActive, cartItems,
                 isLoading, isSearching, isSubmittingOrder, error, fetchReq,
                 searchReqs, postReq, putReqs, fetchCap, submitted, dispatched, latest,
                 showSuccessMessage, firstAdd>>
  /\ UNCHANGED <<sentOrder, auxVars>>

\* ------------------------------------------------- order pipeline (App.vue)
\* the spaces left on the lesson sent in place of the quantity
OrderDataMut(h, C) ==
  [lessonIds |-> [i \in 1..Len(C) |-> h[C[i].lesson].id],
   spaces |-> {<<h[C[i].lesson].id, h[C[i].lesson].spaces>> : i \in 1..Len(C)}]

\* orderData: lessonIds = cart.map(id), spaces = cart.reduce(acc[id] = quantity)
OrderData(h, C) ==
  [lessonIds |-> [i \in 1..Len(C) |-> h[C[i].lesson].id],
   spaces |-> {<<h[C[i].lesson].id, C[i].quantity>> : i \in
                 {k \in 1..Len(C) :
                    \A j \in (k + 1)..Len(C) : h[C[j].lesson].id # h[C[k].lesson].id}}]

\* updateLessonSpaces: one PUT per cart item, carrying item.lesson.spaces
UpdatePromises(h, C) ==
  {[id |-> h[C[i].lesson].id, spaces |-> h[C[i].lesson].spaces, awaited |-> TRUE] :
     i \in 1..Len(C)}

\* submitOrder(customerInfo): submitOrderAPI up to the POST
SubmitOrderBody ==
  /\ CartViewShown
  /\ Len(cartItems) > 0
  /\ ~isSubmittingOrder
  /\ submitted' = submitted + 1
  /\ isSubmittingOrder' = TRUE
  /\ postReq' = OrderData(heap, cartItems)
  /\ notice' = FALSE
  /\ orderAlert' = "none"
  /\ UNCHANGED <<srv, heap, lessons, searchResults, isSearchActive, cartItems,
                 showCart, isLoading, isSearching, error, fetchReq, searchReqs,
                 putReqs, fetchCap, dispatched, latest, showSuccessMessage,
                 firstAdd, debVars>>
  /\ UNCHANGED auxVars

\* a session submits MaxOrders orders at most
SubmitOrderEvent ==
  /\ submitted < MaxOrders
  /\ SubmitOrderBody

\* the checkout button
SubmitOrder ==
  /\ SubmitOrderEvent
  /\ UNCHANGED sentOrder

\* the checkout button, with the body of the call logged
SubmitOrderLogged ==
  /\ SubmitOrderEvent
  /\ sentOrder' = OrderData(heap, cartItems)

\* the checkout button in a session that may submit MaxResubmits orders
\* more, with the body of the call logged
Resubmit ==
  /\ submitted < MaxOrders + MaxResubmits
  /\ SubmitOrderBody
  /\ sentOrder' = OrderData(heap, cartItems)

\* the pipeline takes no step of submitOrder
OrderPending ==
  /\ orderAlert' = "none"
  /\ UNCHANGED <<heap, lessons, searchResults, cartItems, showCart, isLoading,
                 isSubmittingOrder, error, fetchReq, showSuccessMessage, firstAdd,
                 debVars>>

\* only the first line of the cart dropped, and no refetch
OrderSucceededMut ==
  /\ isSubmittingOrder' = FALSE
  /\ Store(heap, lessons, searchResults, SubSeq(cartItems, 2, Len(cartItems)))
  /\ firstAdd' = {}
  /\ showSuccessMessage' = TRUE
  /\ showCart' = FALSE
  /\ UnmountList
  /\ orderAlert' = "none"
  /\ UNCHANGED <<isLoading, error, fetchReq>>

\* submitOrder after submitOrderAPI resolved: clear the cart, show the success
\* message, leave the cart view, and call fetchLessons
OrderSucceeded ==
  /\ isSubmittingOrder' = FALSE
  /\ Store(heap, lessons, searchResults, <<>>)
  /\ firstAdd' = {}
  /\ showSuccessMessage' = TRUE
  /\ showCart' = FALSE
  /\ UnmountList
  /\ FetchLessonsStart
  /\ orderAlert' = "none"

\* a failure handled by emptying the cart
OrderFailedMut(cause) ==
  /\ isSubmittingOrder' = FALSE
  /\ orderAlert' = cause
  /\ Store(heap, lessons, searchResults, <<>>)
  /\ firstAdd' = {}
  /\ UNCHANGED <<showCart, isLoading, error, fetchReq, showSuccessMessage, debVars>>

\* submitOrderAPI rejected: finally block, then the alert of submitOrder
OrderFailed(cause) ==
  /\ isSubmittingOrder' = FALSE
  /\ orderAlert' = cause
  /\ UNCHANGED <<heap, lessons, searchResults, cartItems, showCart, isLoading,
                 error, fetchReq, showSuccessMessage, firstAdd, debVars>>

\* POST /order answers 200: updateLessonSpaces issues the PUT calls
PostOk ==
  /\ postReq # NoReq
  /\ postReq' = NoReq
  /\ IF Len(cartItems) = 0
     THEN /\ OrderSucceeded
          /\ UNCHANGED putReqs
     ELSE /\ putReqs' = putReqs \cup UpdatePromises(heap, cartItems)
          /\ OrderPending
  /\ notice' = FALSE
  /\ UNCHANGED <<srv, isSearchActive, isSearching, searchReqs, fetchCap, submitted,
                 dispatched, latest>>
  /\ UNCHANGED <<sentOrder, auxVars>>

\* POST /order fails
PostFail ==
  /\ postReq # NoReq
  /\ postReq' = NoReq
  /\ OrderFailed("order")
  /\ notice' = FALSE
  /\ UNCHANGED <<srv, isSearchActive, isSearching, searchReqs, putReqs, fetchCap, submitted, dispatched,
                 latest>>
  /\ UNCHANGED <<sentOrder, auxVars>>

\* Promise.all never resolves
ResolvesMut(P, r) == FALSE

\* Promise.all(updatePromises) resolves when the last call it waits for
\* has succeeded
Resolves(P, r) == r.awaited /\ \A x \in P \ {r} : ~x.awaited

\* PUT /lessons/:id answers 200; Promise.all resolves with the last one
PutOk(r) ==
  /\ r \in putReqs
  /\ srv' = [srv EXCEPT ![r.id] = r.spaces]
  /\ putReqs' = putReqs \ {r}
  /\ IF Resolves(putReqs, r)
     THEN OrderSucceeded
     ELSE OrderPending
  /\ notice' = FALSE
  /\ UNCHANGED <<isSearchActive, isSearching, searchReqs, postReq, fetchCap, submitted,
                 dispatched, latest>>
  /\ UNCHANGED <<sentOrder, auxVars>>

\* the failure of a call swallowed
RejectsMut(r) == FALSE

\* Promise.all(updatePromises) rejects when a call it waits for fails
Rejects(r) == r.awaited

\* PUT /lessons/:id fails; Promise.all rejects at once and the other calls
\* stay in flight with nobody awaiting them
PutFail(r) ==
  /\ r \in putReqs
  /\ IF Rejects(r)
     THEN /\ putReqs' = {[x EXCEPT !.awaited = FALSE] : x \in putReqs \ {r}}
          /\ OrderFailed("update")
     ELSE /\ putReqs' = putReqs \ {r}
          /\ OrderPending
  /\ notice' = FALSE
  /\ UNCHANGED <<srv, isSearchActive, isSearching, searchReqs, postReq, fetchCap, submitted, dispatched,
                 latest>>
  /\ UNCHANGED <<sentOrder, auxVars>>

\* the success message is dismissed, or its 5 s timer hides it
HideSuccess ==
  /\ showSuccessMessage
  /\ showSuccessMessage' = FALSE
  /\ notice' = FALSE
  /\ orderAlert' = "none"
  /\ UNCHANGED <<srv, heap, lessons, searchResults, isSearchActive, cartItems,
                 showCart, isLoading, isSearching, isSubmittingOrder, error,
                 fetchReq, searchReqs, postReq, putReqs, fetchCap, submitted,
                 dispatched, latest, firstAdd, debVars>>
  /\ UNCHANGED <<sentOrder, auxVars>>

\* ------------------------------------------------- sorting (LessonList.vue)
\* the strings compared as they are
ToLowerCaseMut(str) == str

\* String.prototype.toLowerCase on a sequence of code units
ToLowerCase(str) ==
  [i \in 1..Len(str) |->
     IF str[i] >= UpperA /\ str[i] <= UpperZ THEN str[i] + CaseOffset ELSE str[i]]

\* the < operator on two strings: code units are compared from the left, and
\* a proper prefix is the smaller one
RECURSIVE StrLess(_, _)
StrLess(x, y) ==
  IF y = <<>> THEN FALSE
  ELSE IF x = <<>> THEN TRUE
  ELSE IF Head(x) < Head(y) THEN TRUE
  ELSE IF Head(x) > Head(y) THEN FALSE
  ELSE StrLess(Tail(x), Tail(y))

\* the value the comparator reads from a card: a[localSortBy.value], in
\* lower case when it is a string
SortValue(a, by) ==
  LET v == IF by = "subject" THEN a.subject
           ELSE IF by = "location" THEN a.location
           ELSE IF by = "price" THEN a.price
           ELSE a.spaces
  IN IF by \in StringAttrs THEN ToLowerCase(v) ELSE v

\* aValue < bValue
ValueLess(x, y, by) == IF by \in StringAttrs THEN StrLess(x, y) ELSE x < y

\* the comparator handed to Array.prototype.sort
Compare(a, b, by, ord) ==
  LET aValue == SortValue(a, by)
      bValue == SortValue(b, by)
  IN IF ValueLess(aValue, bValue, by) THEN (IF ord = "asc" THEN 0 - 1 ELSE 1)
     ELSE IF ValueLess(bValue, aValue, by) THEN (IF ord = "asc" THEN 1 ELSE 0 - 1)
     ELSE 0

\* Array.prototype.sort is stable: x goes in front of the first element the
\* comparator puts after it
RECURSIVE InsertSorted(_, _, _, _)
InsertSorted(sorted, x, by, ord) ==
  IF sorted = <<>> THEN <<x>>
  ELSE IF Compare(x, Head(sorted), by, ord) < 0 THEN <<x>> \o sorted
  ELSE <<Head(sorted)>> \o InsertSorted(Tail(sorted), x, by, ord)

\* lessonsCopy.sort(comparator)
RECURSIVE SortCopy(_, _, _)
SortCopy(list, by, ord) ==
  IF list = <<>> THEN <<>>
  ELSE InsertSorted(SortCopy(SubSeq(list, 1, Len(list) - 1), by, ord),
                    list[Len(list)], by, ord)

\* the computed sortedLessons
SortedLessons(list, by, ord) == SortCopy(list, by, ord)

\* props.lessons after sortedLessons has run: the sort worked on the copy
\* [...props.lessons]
SortInput(list, sorted) == list

\* a select box of the sort controls changes: v-model, then updateSorting
\* emits 'update-sort' and sortedLessons is computed again
UpdateSorting(by, ord) ==
  /\ <<by, ord>> # <<sortBy, sortOrder>>
  /\ sortBy' = by
  /\ sortOrder' = ord
  /\ sortOut' = SortedLessons(sortProp, by, ord)
  /\ sortProp' = SortInput(sortProp, sortOut')

\* the sort controls of a LessonList mounted on its own
SelectSort(by, ord) ==
  /\ UpdateSorting(by, ord)
  /\ UNCHANGED <<appVars, formVars>>

\* the sort controls inside the application: LessonList is on screen, and
\* updateSort of App.vue stores the emitted options
UpdateSort(by, ord) ==
  /\ LessonsViewShown
  /\ UpdateSorting(by, ord)
  /\ notice' = FALSE
  /\ orderAlert' = "none"
  /\ UNCHANGED <<progVars, netVars, debVars, fetchCap, submitted, dispatched,
                 latest, firstAdd, sentOrder, formVars>>

\* ---------------------------------------------------- CheckoutForm.vue
\* namePattern /^[A-Za-z\s]+$/ on a non-empty text
NamePattern(name) == \A i \in 1..Len(name) : name[i] \in Letters \cup Whitespace

\* phonePattern /^[0-9]+$/ on a non-empty text
PhonePattern(phone) == \A i \in 1..Len(phone) : phone[i] \in DigitChars

\* validateName: the message it leaves in nameError
ValidateName(text) ==
  LET name == Trim(text)
  IN IF name = <<>> THEN "Name is required"
     ELSE IF ~NamePattern(name) THEN "Name must contain only letters and spaces"
     ELSE IF Len(name) < MinNameLen THEN "Name must be at least 2 characters"
     ELSE ""

\* validatePhone: the message it leaves in phoneError
ValidatePhone(text) ==
  LET phone == Trim(text)
  IN IF phone = <<>> THEN "Phone number is required"
     ELSE IF ~PhonePattern(phone) THEN "Phone number must contain only numbers"
     ELSE IF Len(phone) < MinPhoneLen THEN "Phone number must be at least 10 digits"
     ELSE IF Len(phone) > MaxPhoneLen THEN "Phone number must be at most 15 digits"
     ELSE ""

\* the computed isFormValid
IsFormValid(name, phone, nErr, pErr) ==
  /\ Trim(name) # <<>>
  /\ Trim(phone) # <<>>
  /\ nErr = ""
  /\ pErr = ""

\* an input event of the name box: v-model, then validateName
TypeName(text) ==
  /\ text # customerName
  /\ customerName' = text
  /\ nameError' = ValidateName(text)
  /\ submitEvent' = NoEvent
  /\ UNCHANGED <<customerPhone, phoneError, appVars, sortVars>>

\* an input event of the phone box: v-model, then validatePhone
TypePhone(text) ==
  /\ text # customerPhone
  /\ customerPhone' = text
  /\ phoneError' = ValidatePhone(text)
  /\ submitEvent' = NoEvent
  /\ UNCHANGED <<customerName, nameError, appVars, sortVars>>

\* handleSubmit: the form is submitted, which the disabled submit button
\* allows only when isFormValid holds and no order is being submitted
HandleSubmit ==
  /\ IsFormValid(customerName, customerPhone, nameError, phoneError)
  /\ ~isSubmittingOrder
  /\ nameError' = ValidateName(customerName)
  /\ phoneError' = ValidatePhone(customerPhone)
  /\ submitEvent' = IF IsFormValid(customerName, customerPhone, nameError', phoneError')
                    THEN [name |-> Trim(customerName), phone |-> Trim(customerPhone)]
                    ELSE NoEvent
  /\ UNCHANGED <<customerName, customerPhone, appVars, sortVars>>

\* resetForm, which App.vue calls through the template ref
ResetForm ==
  /\ <<customerName, customerPhone>> # <<<<>>, <<>>>>
  /\ customerName' = <<>>
  /\ customerPhone' = <<>>
  /\ nameError' = ""
  /\ phoneError' = ""
  /\ submitEvent' = NoEvent
  /\ UNCHANGED <<appVars, sortVars>>

\* ------------------------------------------------------------------- Next
Next ==
  \/ FetchOk
  \/ FetchFail
  \/ Retry
  \/ \E q \in Queries \cup {""} : HandleSearch(q)
  \/ ClearSearch
  \/ \E i \in 1..MaxSearches : SearchOk(i)
  \/ \E i \in 1..MaxSearches : SearchFail(i)
  \/ \E o \in Refs : AddToCart(o)
  \/ \E id \in Ids : RemoveFromCart(id)
  \/ ToggleCart
  \/ SubmitOrder
  \/ PostOk
  \/ PostFail
  \/ \E r \in PutCalls : PutOk(r)
  \/ \E r \in PutCalls : PutFail(r)
  \/ HideSuccess

Spec == Init /\ [][Next]_vars

\* a browsing session: every handler except the checkout button
NextBrowse ==
  \/ FetchOk
  \/ FetchFail
  \/ Retry
  \/ \E q \in Queries \cup {""} : HandleSearch(q)
  \/ ClearSearch
  \/ \E i \in 1..MaxSearches : SearchOk(i)
  \/ \E i \in 1..MaxSearches : SearchFail(i)
  \/ \E o \in Refs : AddToCart(o)
  \/ \E id \in Ids : RemoveFromCart(id)
  \/ ToggleCart

SpecBrowse == Init /\ [][NextBrowse]_vars

\* a checkout session: the search box is left alone
NextCheckout ==
  \/ FetchOk
  \/ FetchFail
  \/ Retry
  \/ \E o \in Refs : AddToCart(o)
  \/ \E id \in Ids : RemoveFromCart(id)
  \/ ToggleCart
  \/ SubmitOrder
  \/ PostOk
  \/ PostFail
  \/ \E r \in PutCalls : PutOk(r)
  \/ \E r \in PutCalls : PutFail(r)
  \/ HideSuccess

SpecCheckout == Init /\ [][NextCheckout]_vars

\* a checkout session in which every network call is answered: POST /order
\* is, and as long as PUT calls are in flight one of them is
SpecCheckoutFair ==
  /\ SpecCheckout
  /\ WF_vars(PostOk \/ PostFail)
  /\ WF_vars(\E r \in PutCalls : PutOk(r) \/ PutFail(r))

\* a checkout session with the order bodies logged, in which lessons are
\* put into the cart and none is taken out
NextLogged ==
  \/ FetchOk
  \/ FetchFail
  \/ Retry
  \/ \E o \in Refs : AddToCart(o)
  \/ ToggleCart
  \/ SubmitOrderLogged
  \/ PostOk
  \/ PostFail
  \/ \E r \in PutCalls : PutOk(r)
  \/ \E r \in PutCalls : PutFail(r)
  \/ HideSuccess

SpecLogged == Init /\ [][NextLogged]_vars

\* a checkout session in which the checkout button may be used again after
\* a submission has ended, with the order bodies logged
NextResubmit ==
  \/ FetchOk
  \/ FetchFail
  \/ Retry
  \/ \E o \in Refs : AddToCart(o)
  \/ ToggleCart
  \/ Resubmit
  \/ PostOk
  \/ PostFail
  \/ \E r \in PutCalls : PutOk(r)
  \/ \E r \in PutCalls : PutFail(r)
  \/ HideSuccess

SpecResubmit == Init /\ [][NextResubmit]_vars

\* a search session: the search box in front of the search handlers, the
\* cart left alone
NextType ==
  \/ FetchOk
  \/ FetchFail
  \/ Retry
  \/ \E t \in Texts : Keystroke(t)
  \/ \E h \in TimerIds : TimerFire(h)
  \/ ClearClick
  \/ \E i \in 1..MaxSearches : SearchOk(i)
  \/ \E i \in 1..MaxSearches : SearchFail(i)

SpecType == Init /\ [][NextType]_vars

\* a session that either searches once or orders once, with the sort
\* controls in use: every handler of App.vue is present
SearchOnce(q) == dispatched = 0 /\ submitted = 0 /\ HandleSearch(q)
SubmitOnce == dispatched = 0 /\ submitted = 0 /\ SubmitOrder

NextFrame ==
  \/ FetchOk
  \/ FetchFail
  \/ Retry
  \/ \E q \in Queries \cup {""} : SearchOnce(q)
  \/ ClearSearch
  \/ \E i \in 1..MaxSearches : SearchOk(i)
  \/ \E i \in 1..MaxSearches : SearchFail(i)
  \/ \E o \in Refs : AddToCart(o)
  \/ \E id \in Ids : RemoveFromCart(id)
  \/ ToggleCart
  \/ \E by \in SortAttrs : \E ord \in SortOrders : UpdateSort(by, ord)
  \/ SubmitOnce
  \/ PostOk
  \/ PostFail
  \/ \E r \in PutCalls : PutOk(r)
  \/ \E r \in PutCalls : PutFail(r)
  \/ HideSuccess

SpecFrame == Init /\ [][NextFrame]_vars

\* sortedLessons on its own: a LessonList mounted with any list of cards
InitSorting ==
  /\ InitApp
  /\ InitForm
  /\ sortProp \in SortLists
  /\ sortBy = "subject"
  /\ sortOrder = "asc"
  /\ sortOut = SortedLessons(sortProp, sortBy, sortOrder)

NextSort == \E by \in SortAttrs : \E ord \in SortOrders : SelectSort(by, ord)

SpecSort == InitSorting /\ [][NextSort]_vars

\* CheckoutForm on its own
NextForm ==
  \/ \E text \in NameTexts : TypeName(text)
  \/ \E text \in PhoneTexts : TypePhone(text)
  \/ HandleSubmit
  \/ ResetForm

SpecForm == Init /\ [][NextForm]_vars

\* ===================================================================
\* Properties
\* ===================================================================
InList(h, list, id) == Find(h, list, id) # NoObj
SpacesIn(h, list, id) == h[Find(h, list, id)].spaces

\* total quantity the cart holds for a lesson id
RECURSIVE QtySum(_, _, _)
QtySum(h, C, id) ==
  IF C = <<>> THEN 0
  ELSE (IF h[Head(C).lesson].id = id THEN Head(C).quantity ELSE 0)
       + QtySum(h, Tail(C), id)

\* the cart lines as (id, quantity) pairs, and a list as (id, spaces) records
CartLines(h, C) ==
  [i \in 1..Len(C) |-> [id |-> h[C[i].lesson].id, quantity |-> C[i].quantity]]
Records(h, list) == [i \in 1..Len(list) |-> h[list[i]]]

AcceptedAdd(o) == AddToCart(o) /\ heap[o].spaces > 0
RejectedAdd(o) == AddToCart(o) /\ heap[o].spaces <= 0
EffectiveRemove(id) == RemoveFromCart(id) /\ CartIndex(heap, cartItems, id) # 0
CartMutation ==
  \/ \E o \in 1..Len(heap) : AcceptedAdd(o)
  \/ \E id \in Ids : EffectiveRemove(id)

ViewsAgree(h, L, S, active) ==
  active => \A id \in Ids :
              (InList(h, L, id) /\ InList(h, S, id))
                => SpacesIn(h, L, id) = SpacesIn(h, S, id)

\* C1: after every cart mutation (an accepted addToCart or a removeFromCart
\* of a held lesson), if the search projection is active, every lesson id
\* present in both lessons and searchResults has the same spaces in both.
C1_ViewConsistency ==
  [][CartMutation =>
       ViewsAgree(heap', lessons', searchResults', isSearchActive')]_vars

\* C2: every record of the catalog and of the search projection has
\* spaces >= 0 in every reachable state.
C2_SpacesNonNegative ==
  /\ \A i \in 1..Len(lessons) : heap[lessons[i]].spaces >= 0
  /\ \A i \in 1..Len(searchResults) : heap[searchResults[i]].spaces >= 0

\* C3: the quantity the cart holds for a lesson never exceeds the capacity
\* the last catalog fetch reported for it.
C3_QuantityWithinFetchedCapacity ==
  \A id \in Ids : QtySum(heap, cartItems, id) <= fetchCap[id]

\* C4: for every catalog record, spaces plus the quantity held in the cart
\* equals the capacity the last catalog fetch reported.
C4_CapacityConservation ==
  \A i \in 1..Len(lessons) :
    heap[lessons[i]].spaces + QtySum(heap, cartItems, heap[lessons[i]].id)
      = fetchCap[heap[lessons[i]].id]

\* C5: once the most recently dispatched search request has been answered
\* with results, the results of any earlier request still in flight are
\* discarded when they arrive: they change neither searchResults nor
\* isSearchActive, so the projection keeps the latest query's results.
C5_LastQueryWins ==
  [][\A i \in 1..MaxSearches :
       (latest = "answered" /\ SearchOk(i))
         => /\ Records(heap', searchResults') = Records(heap, searchResults)
            /\ isSearchActive' = isSearchActive]_vars

\* C6: addToCart on a record with spaces <= 0 changes nothing: cart,
\* catalog, search projection and every other ref keep their values and no
\* network call is issued.
C6_RejectionChangesNothing ==
  [][\A o \in 1..Len(heap) :
       RejectedAdd(o) => UNCHANGED <<progVars, netVars>>]_vars

\* a rejected add has just run: a displayed record is fully booked and the
\* notice was shown
C6_Witness ==
  /\ notice
  /\ \E i \in 1..Len(displayedLessons) : heap[displayedLessons[i]].spaces <= 0

\* C7: the cart holds at most one line per lesson id in every reachable state.
C7_OneLinePerLesson ==
  \A id \in Ids :
    Cardinality({i \in 1..Len(cartItems) : heap[cartItems[i].lesson].id = id}) <= 1

\* a line created from the catalog view whose quantity was then raised from
\* a search view (the catalog copy of a capacity-1 lesson allows one add only)
C7_Witness ==
  \E i \in 1..Len(cartItems) :
    /\ cartItems[i].quantity = 2
    /\ fetchCap[heap[cartItems[i].lesson].id] = 1
    /\ \E k \in 1..Len(lessons) : lessons[k] = cartItems[i].lesson
    /\ isSearchActive

\* C8: an accepted addToCart raises the cart quantity of its lesson by
\* exactly 1 (from 0 to 1 when it had no line) and leaves every other line
\* as it was; every cart line always has quantity >= 1.
C8_AddRaisesQuantityByOne ==
  /\ [][\A o \in 1..Len(heap) :
          AcceptedAdd(o) =>
            /\ QtySum(heap', cartItems', heap[o].id)
                 = QtySum(heap, cartItems, heap[o].id) + 1
            /\ \A i \in 1..Len(cartItems) :
                 CartLines(heap, cartItems)[i].id # heap[o].id
                   => CartLines(heap', cartItems')[i] = CartLines(heap, cartItems)[i]
            /\ Len(cartItems') =
                 Len(cartItems) + (IF QtySum(heap, cartItems, heap[o].id) = 0
                                   THEN 1 ELSE 0)]_vars
  /\ [](\A i \in 1..Len(cartItems) : cartItems[i].quantity >= 1)

\* two lines in the cart, one of which was raised by a second accepted add
C8_Witness ==
  /\ Len(cartItems) = 2
  /\ \E i \in 1..Len(cartItems) : cartItems[i].quantity >= 2

\* C9: an accepted addToCart lowers spaces of its lesson by exactly 1 in the
\* catalog and, when the search projection is active and contains the
\* lesson, by exactly 1 in the search projection.
C9_AddLowersSpacesByOne ==
  [][\A o \in 1..Len(heap) :
       AcceptedAdd(o) =>
         /\ InList(heap, lessons, heap[o].id)
              => SpacesIn(heap', lessons', heap[o].id)
                   = SpacesIn(heap, lessons, heap[o].id) - 1
         /\ (isSearchActive /\ InList(heap, searchResults, heap[o].id))
              => SpacesIn(heap', searchResults', heap[o].id)
                   = SpacesIn(heap, searchResults, heap[o].id) - 1]_vars

\* C10: removeFromCart of a lesson held with quantity q deletes its line,
\* raises spaces of that lesson by exactly q in the catalog and, when the
\* search projection is active and contains it, by exactly q there, and
\* changes no other line and no other record.
C10_RemoveRestoresQuantity ==
  [][\A id \in Ids :
       EffectiveRemove(id) =>
         LET q == cartItems[CartIndex(heap, cartItems, id)].quantity
         IN /\ QtySum(heap', cartItems', id) = 0
            /\ \A j \in Ids \ {id} :
                 QtySum(heap', cartItems', j) = QtySum(heap, cartItems, j)
            /\ InList(heap, lessons, id)
                 => SpacesIn(heap', lessons', id) = SpacesIn(heap, lessons, id) + q
            /\ (isSearchActive /\ InList(heap, searchResults, id))
                 => SpacesIn(heap', searchResults', id)
                      = SpacesIn(heap, searchResults, id) + q
            /\ \A j \in Ids \ {id} :
                 /\ InList(heap, lessons, j)
                      => SpacesIn(heap', lessons', j) = SpacesIn(heap, lessons, j)
                 /\ InList(heap, searchResults, j)
                      => SpacesIn(heap', searchResults', j)
                           = SpacesIn(heap, searchResults, j)]_vars

\* C11: round trip.  When removeFromCart deletes the line of a lesson, the
\* lesson has no line again and its spaces in the catalog are what the
\* catalog held just before the add that created the line, whatever
\* searches ran between.
C11_RoundTrip ==
  [][\A id \in Ids :
       EffectiveRemove(id) =>
         \A p \in firstAdd :
           p[1] = id =>
             /\ QtySum(heap', cartItems', id) = 0
             /\ SpacesIn(heap', lessons', id) = p[2]]_vars

\* a call of putReqs' that was not in flight before the step
NewPut(x) == \A y \in putReqs : y.id # x.id \/ y.spaces # x.spaces

\* C12: when POST /order fails the submission ends (isSubmittingOrder false)
\* with the failure alert, the cart, every lesson record, the backend and
\* the success message are as before, and no PUT is issued: PUT calls are
\* only ever issued by a step in which POST /order succeeds.
C12_FailedPostChangesNothing ==
  /\ [][PostFail =>
          /\ ~isSubmittingOrder'
          /\ orderAlert' = "order"
          /\ UNCHANGED <<heap, lessons, searchResults, cartItems, srv, putReqs,
                         showSuccessMessage, fetchReq, isLoading, showCart>>]_vars
  /\ [][(\E x \in putReqs' : NewPut(x)) => PostOk]_vars

\* the order-creation call has just failed with lines in the cart
C12_Witness ==
  /\ orderAlert = "order"
  /\ ~isSubmittingOrder
  /\ Len(cartItems) > 0
  /\ putReqs = {}

\* C13: when POST /order succeeds, the PUT calls awaited after the step are
\* one per cart line, and the call for a line carries the spaces the catalog
\* record of that lesson holds.
C13_PushesCatalogSpaces ==
  [][PostOk =>
       /\ Cardinality({x \in putReqs' : x.awaited}) = Len(cartItems)
       /\ \A i \in 1..Len(cartItems) :
            \E x \in putReqs' :
              /\ x.awaited
              /\ x.id = heap[cartItems[i].lesson].id
              /\ x.spaces = SpacesIn(heap, lessons, x.id)]_vars

\* C14: when a step ends the Submitting state, no PUT call that the
\* pipeline was waiting for is still in flight after it.
C14_OutcomeAfterAllSettled ==
  [][(isSubmittingOrder /\ ~isSubmittingOrder') =>
       \A x \in putReqs' : \A y \in putReqs : y.awaited => (y.id # x.id \/ y.spaces # x.spaces)]_vars

\* C15: when a PUT the pipeline waits for fails, the submission ends with
\* the failure alert and without the success message, the cart stays, no
\* call is issued and the backend keeps what earlier PUT calls wrote; no
\* remaining call can turn the outcome into success.  The backend's spaces
\* change only when a PUT succeeds.
C15_UpdateFailureReported ==
  /\ [][\A r \in PutCalls :
          (PutFail(r) /\ r.awaited) =>
            /\ ~isSubmittingOrder'
            /\ orderAlert' = "update"
            /\ UNCHANGED <<srv, postReq, cartItems, heap, showSuccessMessage,
                           fetchReq>>
            /\ \A x \in putReqs' : ~NewPut(x) /\ ~x.awaited]_vars
  /\ [][srv' # srv => \E r \in PutCalls : PutOk(r)]_vars

\* one PUT was applied by the backend, another failed: the failure is
\* reported and the first one's effect is still there
C15_Witness ==
  /\ orderAlert = "update"
  /\ ~isSubmittingOrder
  /\ Len(cartItems) = 2
  /\ \E id \in Ids : srv[id] # fetchCap[id]

\* the step with which the last awaited PUT succeeds, or POST /order
\* succeeds with nothing to update
FullSuccess ==
  \/ PostOk /\ Len(cartItems) = 0
  \/ \E r \in PutCalls :
       PutOk(r) /\ r.awaited /\ \A x \in putReqs \ {r} : ~x.awaited

PipelineStep ==
  \/ PostOk
  \/ PostFail
  \/ \E r \in PutCalls : PutOk(r)
  \/ \E r \in PutCalls : PutFail(r)

\* C16: the step of full success empties the cart, shows the success
\* message and starts a catalog fetch; every pipeline step either leaves the
\* cart lines as they are or empties the cart.
C16_CartClearedAtOnce ==
  /\ [][FullSuccess =>
          /\ cartItems' = <<>>
          /\ showSuccessMessage'
          /\ fetchReq' /\ isLoading'
          /\ ~isSubmittingOrder']_vars
  /\ [][PipelineStep =>
          \/ cartItems' = <<>>
          \/ CartLines(heap', cartItems') = CartLines(heap, cartItems)]_vars

\* an order for both lessons went through: both PUT calls were applied, the
\* cart is empty, the message is up and the refetch is in flight
C16_Witness ==
  /\ showSuccessMessage
  /\ fetchReq /\ isLoading
  /\ cartItems = <<>>
  /\ \A id \in Ids : srv[id] # fetchCap[id]

\* a text that is empty after trimming
Blank(t) == \A i \in 1..Len(t) : t[i] = " "

\* C17: at most one timer of the search box is pending; a keystroke cancels
\* the pending timer and leaves exactly the one it arms; the timer that
\* fires leaves none pending and emits once, with the trimmed text the box
\* holds at that moment; search requests are dispatched by timers only.
C17_Debounce ==
  /\ [](Cardinality(timers) <= 1)
  /\ [][\A t \in Texts :
          Keystroke(t) => /\ timers' = {searchTimeout'}
                          /\ searchTimeout' \notin timers]_vars
  /\ [][\A h \in TimerIds :
          TimerFire(h) =>
            /\ timers' = {}
            /\ IF Blank(searchQuery)
               THEN searchReqs' = searchReqs /\ ~isSearchActive'
               ELSE /\ Len(searchReqs') = Len(searchReqs) + 1
                    /\ \E t \in Texts :
                         /\ ~Blank(t) /\ Head(t) # " " /\ t[Len(t)] # " "
                         /\ \E a, b \in {<<>>, <<" ">>} : searchQuery = a \o t \o b
                         /\ searchReqs'[Len(searchReqs')] = Str(t)]_vars
  /\ [][Len(searchReqs') > Len(searchReqs) => \E h \in TimerIds : TimerFire(h)]_vars

\* two keystrokes in a burst (the second handle was armed while the first
\* was pending), then one emission carrying the trimmed text
C17_Witness ==
  /\ searchTimeout = 2
  /\ timers = {}
  /\ searchQuery = <<" ", "m", "a", " ">>
  /\ dispatched = 1
  /\ searchReqs = <<"ma">>

\* C18: a 'search' event for a text that is empty after trimming leaves the
\* search projection inactive and searchResults empty, so that the displayed
\* list is the catalog, and issues no network call.
C18_EmptyQueryClears ==
  [][\A h \in TimerIds :
       (TimerFire(h) /\ Blank(searchQuery)) =>
         /\ ~isSearchActive'
         /\ searchResults' = <<>>
         /\ (IF isSearchActive' THEN searchResults' ELSE lessons') = lessons'
         /\ UNCHANGED netVars]_vars

\* a whitespace-only text was emitted after a search had been dispatched
C18_Witness ==
  /\ searchQuery = <<" ">>
  /\ timers = {}
  /\ dispatched >= 1
  /\ latest = "none"
  /\ ~isSearchActive

\* C19: while no non-empty query has been dispatched since the last
\* clearSearch, the search projection is inactive.
C19_InactiveAfterClear ==
  latest = "none" => ~isSearchActive

\* C20: a failed search request leaves the displayed list equal to the
\* catalog, raises no error, and leaves the page and the cart as they were,
\* so that add and remove stay available.
C20_FailedSearchShowsCatalog ==
  [][\A i \in 1..MaxSearches :
       SearchFail(i) =>
         /\ (IF isSearchActive' THEN searchResults' ELSE lessons') = lessons'
         /\ error' = error
         /\ UNCHANGED <<isLoading, showCart, isSearchActive>>
         /\ CartLines(heap', cartItems') = CartLines(heap, cartItems)
         /\ Records(heap', lessons') = Records(heap, lessons)]_vars

\* the latest search failed while a filtered projection was active: the
\* displayed list is now the catalog
C20_Witness ==
  /\ isSearchActive
  /\ latest = "failed"
  /\ Len(lessons) > 0
  /\ searchResults = lessons
  /\ ~error

\* the v-else-if branch of the template: the panel with the "Try again" button
ErrorPanelShown == ~isLoading /\ error

\* C21: a catalog fetch that fails sets the error, so that the retry panel is
\* what the page shows, leaves the catalog as it was and ends loading; the
\* retry button starts a new fetch and clears the error.
C21_FailedFetch ==
  [][/\ FetchFail =>
          /\ error'
          /\ ~isLoading'
          /\ ErrorPanelShown'
          /\ ~ContentShown'
          /\ lessons' = lessons
          /\ Records(heap', lessons') = Records(heap, lessons)
     /\ Retry =>
          /\ fetchReq'
          /\ ~error'
          /\ isLoading']_vars

\* the refresh after an order failed: the error panel is up and the catalog
\* fetched before is still there
C21_Witness ==
  /\ ErrorPanelShown
  /\ ~fetchReq
  /\ submitted >= 1
  /\ Len(lessons) = Cardinality(Ids)
  /\ showSuccessMessage

\* C22: a catalog fetch that succeeds makes the catalog the records of the
\* response, each with the spaces the backend reported, in objects no other
\* collection holds: nothing of the previous catalog survives.
C22_FetchReplacesCatalog ==
  [][FetchOk =>
       /\ Len(lessons') = Cardinality(Ids)
       /\ \A id \in Ids :
            /\ InList(heap', lessons', id)
            /\ SpacesIn(heap', lessons', id) = srv[id]
       /\ \A i \in 1..Len(lessons') :
            /\ \A j \in 1..Len(searchResults') : searchResults'[j] # lessons'[i]
            /\ \A j \in 1..Len(cartItems') : cartItems'[j].lesson # lessons'[i]]_vars

\* the refresh after an order has answered: the catalog shows the backend's
\* spaces, which the order has lowered
C22_Witness ==
  /\ submitted >= 1
  /\ ~fetchReq
  /\ ContentShown
  /\ Len(lessons) = Cardinality(Ids)
  /\ \A id \in Ids : SpacesIn(heap, lessons, id) = srv[id]
  /\ \E id \in Ids : srv[id] < MaxCap

\* C23: the body of POST /order lists the id of every cart line once, in
\* cart order, and its spaces mapping has exactly those ids as keys, each
\* mapped to the quantity of its line when the order is submitted.
C23_OrderPayload ==
  [][SubmitOrder =>
       LET L == CartLines(heap, cartItems)
           body == postReq'
       IN /\ Len(body.lessonIds) = Len(L)
          /\ \A i \in 1..Len(L) : body.lessonIds[i] = L[i].id
          /\ \A i, j \in 1..Len(L) :
               body.lessonIds[i] = body.lessonIds[j] => i = j
          /\ {pair[1] : pair \in body.spaces} = {L[i].id : i \in 1..Len(L)}
          /\ Cardinality(body.spaces) = Len(L)
          /\ \A i \in 1..Len(L) : <<L[i].id, L[i].quantity>> \in body.spaces]_vars

\* an order for two lessons, one of them booked MaxQty times, is in flight
C23_Witness ==
  /\ postReq # NoReq
  /\ Len(postReq.lessonIds) = Cardinality(Ids)
  /\ \E pair \in postReq.spaces : pair[2] = MaxQty
  /\ CartLines(heap, cartItems) =
       [i \in 1..Len(postReq.lessonIds) |->
          [id |-> postReq.lessonIds[i],
           quantity |-> (CHOOSE pair \in postReq.spaces :
                           pair[1] = postReq.lessonIds[i])[2]]]

\* C25: every submission whose POST succeeded ends by starting a catalog
\* fetch, whether its PUT calls succeeded or one of them failed.
C25_RefetchAfterPost ==
  [][(FullSuccess \/ \E r \in PutCalls : PutFail(r) /\ r \in putReqs /\ r.awaited)
       => fetchReq' /\ isLoading']_vars

\* C28: removeFromCart for a lesson that has no cart line changes nothing:
\* not the cart, not the catalog or the search view, not the page, and no
\* call is made.
C28_RemoveAbsentIsNoOp ==
  [][\A id \in Ids :
       (QtySum(heap, cartItems, id) = 0 /\ RemoveFromCart(id))
         => UNCHANGED <<progVars, netVars, debVars, auxVars>>]_vars

\* the cart view with a line for one lesson and none for another, whose
\* removal is then the no-op
C28_Witness ==
  /\ CartViewShown
  /\ \E id \in Ids :
       /\ QtySum(heap, cartItems, id) = 0
       /\ InList(heap, lessons, id)
  /\ \E id \in Ids : QtySum(heap, cartItems, id) = MaxQty
  /\ Len(cartItems) = 1

\* C30: when the step of full success empties the cart, every line it drops
\* was in the body of the order being completed, with at least the quantity
\* the line has now.
C30_ClearedWasOrdered ==
  [][FullSuccess =>
       \A i \in 1..Len(cartItems) :
         \E pair \in sentOrder.spaces :
           /\ pair[1] = heap[cartItems[i].lesson].id
           /\ pair[2] >= cartItems[i].quantity]_vars

\* a string with its capital letters replaced by small ones
CaseFold(str) ==
  [i \in 1..Len(str) |-> IF str[i] \in UpperA..UpperZ THEN str[i] + CaseOffset ELSE str[i]]

\* card a has to come before card b when the list is in ascending order of
\* the attribute
KeyBefore(a, b, by) ==
  IF by = "subject" THEN StrLess(CaseFold(a.subject), CaseFold(b.subject))
  ELSE IF by = "location" THEN StrLess(CaseFold(a.location), CaseFold(b.location))
  ELSE IF by = "price" THEN a.price < b.price
  ELSE a.spaces < b.spaces

\* how often a card occurs in a list
Occurrences(list, a) == Cardinality({i \in 1..Len(list) : list[i] = a})

IsPermutation(out, in) ==
  /\ Len(out) = Len(in)
  /\ \A a \in SortLessons : Occurrences(out, a) = Occurrences(in, a)

IsOrdered(out, by, ord) ==
  \A i, j \in 1..Len(out) :
    i < j => IF ord = "asc" THEN ~KeyBefore(out[j], out[i], by)
                            ELSE ~KeyBefore(out[i], out[j], by)

\* C29: whenever the sort controls change, the list shown is a permutation of
\* the list handed in, ordered by the chosen attribute (strings without
\* regard to case) in the chosen direction, and the list handed in is left
\* as it was.
C29_SortedDisplay ==
  [][/\ IsPermutation(sortOut', sortProp)
     /\ IsOrdered(sortOut', sortBy', sortOrder')
     /\ sortProp' = sortProp]_vars

\* a full list sorted by subject downwards, in which a capital "Z" stood in
\* front of a small "a" and the sort had to move cards
C29_Witness ==
  /\ sortBy = "subject"
  /\ sortOrder = "desc"
  /\ Len(sortProp) = MaxList
  /\ sortOut # sortProp
  /\ sortOut[1].subject = <<90>>
  /\ \E i, j \in 1..Len(sortProp) :
       i < j /\ sortProp[i].subject = <<97>> /\ sortProp[j].subject = <<90>>

\* C27: the form emits 'submit-order' only with the trimmed texts of the two
\* boxes, the name being letters and spaces only and at least MinNameLen
\* long, the phone being digits only and MinPhoneLen to MaxPhoneLen long.
C27_EmitsOnlyValid ==
  [][(HandleSubmit /\ submitEvent' # NoEvent) =>
       LET e == submitEvent'
       IN /\ e.name = Trim(customerName)
          /\ e.phone = Trim(customerPhone)
          /\ \A i \in 1..Len(e.name) : e.name[i] \in Letters \cup {" "}
          /\ Len(e.name) >= MinNameLen
          /\ \A i \in 1..Len(e.phone) : e.phone[i] \in DigitChars
          /\ Len(e.phone) >= MinPhoneLen
          /\ Len(e.phone) <= MaxPhoneLen]_vars

\* C26: when every network call is answered, a submission that has begun
\* comes to its end (isSubmittingOrder is false again); and as long as its
\* POST /order has not been answered the submission has not ended.
C26_SubmissionEnds ==
  /\ isSubmittingOrder ~> ~isSubmittingOrder
  /\ [](postReq # NoReq => isSubmittingOrder)

\* a submission that has ended on a failed PUT while another PUT of it is
\* still in flight
C26_Witness ==
  /\ submitted >= 1
  /\ ~isSubmittingOrder
  /\ postReq = NoReq
  /\ putReqs # {}
  /\ orderAlert = "update"

\* C24: a step that changes a record of the catalog is an addToCart, a
\* removeFromCart or the completion of a catalog fetch; dispatching a
\* search, a search response, clearSearch, a change of the sort controls,
\* toggling the cart view, submitting an order and every response of the
\* POST/PUT phase leave the catalog records as they are.
C24_OnlyCartAndFetchWrite ==
  [][Records(heap', lessons') # Records(heap, lessons) =>
       /\ \/ \E o \in Refs : AddToCart(o)
          \/ \E id \in Ids : RemoveFromCart(id)
          \/ FetchOk
       /\ ~ \/ \E q \in Queries \cup {""} : HandleSearch(q)
            \/ \E i \in 1..MaxSearches : SearchOk(i) \/ SearchFail(i)
            \/ ClearSearch
            \/ \E by \in SortAttrs : \E ord \in SortOrders : UpdateSort(by, ord)
            \/ ToggleCart
            \/ SubmitOrder
            \/ PipelineStep]_vars

\* the PUT phase of an order with the sort controls changed meanwhile: the
\* catalog still shows the spaces the cart has lowered
C24_Witness ==
  /\ putReqs # {}
  /\ isSubmittingOrder
  /\ sortBy = "price"
  /\ sortOrder = "desc"
  /\ \E id \in Ids :
       /\ InList(heap, lessons, id)
       /\ SpacesIn(heap, lessons, id) < fetchCap[id]

\* C31: when POST /order succeeds, a PUT /lessons/:id call is issued for
\* every lesson id listed in the body of that order.
C31_UpdateForEveryOrderedLesson ==
  [][PostOk =>
       \A i \in 1..Len(postReq.lessonIds) :
         \E r \in putReqs' : NewPut(r) /\ r.id = postReq.lessonIds[i]]_vars

\* C32: for every PUT /lessons/:id call a submission issues, the spaces it
\* carries plus the quantity the body of the order records for that lesson
\* is the capacity of the lesson in the last catalog fetch.
C32_PushedPlusOrderedIsCapacity ==
  [][PostOk =>
       \A r \in putReqs' :
         NewPut(r) =>
           \E pair \in postReq.spaces :
             /\ pair[1] = r.id
             /\ r.spaces + pair[2] = fetchCap[r.id]]_vars

\* C35: isSearching is true exactly when a search request is in flight.
C35_IndicatorAccurate ==
  isSearching <=> Len(searchReqs) > 0

\* C36: no record of the catalog or of the search view has more spaces than
\* the backend reported for its lesson.
C36_SpacesWithinCapacity ==
  \A id \in Ids :
    /\ InList(heap, lessons, id) => SpacesIn(heap, lessons, id) <= fetchCap[id]
    /\ InList(heap, searchResults, id) =>
         SpacesIn(heap, searchResults, id) <= fetchCap[id]

\* C33: an order-creation call is issued only when no POST /order and no
\* PUT /lessons/:id call of an earlier submission is in flight.
C33_NoSubmitWhileCallsInFlight ==
  [][Resubmit => postReq = NoReq /\ putReqs = {}]_vars

\* C34: when a submission has just failed on a capacity update, so that its
\* order was created, and the cart still holds the lines of that order, the
\* next step is not a POST /order for those same lines.
C34_NoSecondOrderForSameLines ==
  [][(/\ orderAlert = "update"
      /\ sentOrder # NoReq
      /\ sentOrder = OrderData(heap, cartItems))
       => ~(Resubmit /\ postReq' = sentOrder)]_vars

\* C37: the cart is empty whenever a catalog fetch is in flight, when one
\* starts and when one completes; and while isLoading is true no step puts
\* a lesson into the cart.
C37_CartEmptyDuringFetch ==
  /\ [](fetchReq => Len(cartItems) = 0)
  /\ [][/\ (~fetchReq /\ fetchReq') => Len(cartItems') = 0
        /\ FetchOk => Len(cartItems) = 0 /\ Len(cartItems') = 0
        /\ isLoading => CartLines(heap', cartItems') = CartLines(heap, cartItems)
                        \/ Len(cartItems') = 0]_vars

\* the refresh after an order is in flight: the catalog of before is still
\* held, with a lesson that has spaces left, and the cart is empty
C37_Witness ==
  /\ fetchReq
  /\ isLoading
  /\ submitted >= 1
  /\ Len(cartItems) = 0
  /\ \E id \in Ids : InList(heap, lessons, id) /\ SpacesIn(heap, lessons, id) > 0

\* C38: clearSearch of the search box leaves no timer pending and emits one
\* 'clear-search' event and nothing else; with no timer pending no 'search'
\* event is emitted, and only a keystroke makes a timer pending again.
C38_ClearCancelsTimer ==
  [][/\ ClearClick => timers' = {} /\ emitted' = <<"clear-search">>
     /\ timers = {} =>
          /\ ~(\E h \in TimerIds : TimerFire(h))
          /\ emitted' = <<"search">> => emitted = <<"search">>
     /\ (timers = {} /\ timers' # {}) => \E t \in Texts : Keystroke(t)]_vars

\* the search box has been cleared after typing, before its timer led to
\* any request
C38_Witness ==
  /\ emitted = <<"clear-search">>
  /\ timers = {}
  /\ searchTimeout # NoTimer
  /\ searchQuery = <<>>
  /\ dispatched = 0
  /\ ~isSearchActive

====
